---- MODULE Spec2Model ----
(***************************************************************************)
(* A model of server.py: the static file server of the ScreenGrid examples. *)
(*                                                                         *)
(* The process is main() (lines 30-58): chdir, bind the listener, print    *)
(* the status lines, try to open the browser, serve until interrupted.     *)
(* The request handler is CustomHTTPRequestHandler (lines 16-28), a        *)
(* subclass of http.server.SimpleHTTPRequestHandler with end_headers and   *)
(* guess_type overridden.  The inherited methods it runs through           *)
(* (parse_request, send_error, send_header, send_head, ...) and the        *)
(* socketserver.TCPServer loop are modelled as CPython 3.11 implements     *)
(* them, since the overrides only act through them.                        *)
(*                                                                         *)
(* Strings whose spelling matters (paths, extensions) are sequences of     *)
(* one-character strings, so that endswith, splitext and lower are         *)
(* computed, not assumed.  Request targets are drawn from Targets, which   *)
(* holds no %-escapes and no "." or ".." components: on those unquote and  *)
(* normpath change nothing, and translate_path reduces to the steps        *)
(* modelled here.                                                          *)
(***************************************************************************)
EXTENDS Integers, Sequences, FiniteSets, TLC

\* Bounds of the model.
\* MaxConns: client connections made during one run.
\* MaxInterrupts: interrupt signals delivered during one run.
MaxConns == 2
MaxInterrupts == 2

VARIABLES
    pc,            \* where main() is: "chdir","bind","status","browser","opened","serve","exited"
    cwd,           \* the working directory: "caller" or "script"
    portInUse,     \* whether another process holds port 8000 when the server binds
    mimeDb,        \* the host's MIME database (mimetypes' types_map)
    listener,      \* the listening socket: "none", "listening" or "closed"
    stdout,        \* the lines printed so far
    browser,       \* webbrowser.open: "none" (not called), "launched", "false", "raised"
    exitCode,      \* -1 while the process runs, then its exit status
    uncaught,      \* the exception the process died of: "none", "OSError", "KeyboardInterrupt"
    intrLog,       \* the values of pc at which an interrupt was delivered
    nIntr,         \* interrupts delivered so far
    backlog,       \* connections completed by the kernel and not yet accepted
    nConn,         \* connections made so far
    active,        \* connections whose handler has been dispatched and has not returned
    hpc,           \* the handler: "none", "read" (blocked in readline), "copy" (in copyfile), "done"
    h,             \* the fields of the running handler, or of the last one once it is done
    errLog,        \* tracebacks handle_error printed
    event          \* the last step taken

vars == <<pc, cwd, portInUse, mimeDb, listener, stdout, browser, exitCode, uncaught,
          intrLog, nIntr, backlog, nConn, active, hpc, h, errLog, event>>

-----------------------------------------------------------------------------
\* Strings as sequences of characters.

\* str.endswith
EndsWith(s, suf) ==
    /\ Len(s) >= Len(suf)
    /\ SubSeq(s, Len(s) - Len(suf) + 1, Len(s)) = suf

LowerChar(c) ==
    CASE c = "J" -> "j"
      [] c = "S" -> "s"
      [] OTHER -> c

\* str.lower
Lower(s) == [i \in 1..Len(s) |-> LowerChar(s[i])]

\* str.rfind(c): the last index of c in s, 0 when there is none (Python's -1)
RFind(s, c) ==
    IF \E i \in 1..Len(s) : s[i] = c
    THEN CHOOSE i \in 1..Len(s) : s[i] = c /\ \A j \in (i+1)..Len(s) : s[j] # c
    ELSE 0

\* str.find(c), likewise
Find(s, c) ==
    IF \E i \in 1..Len(s) : s[i] = c
    THEN CHOOSE i \in 1..Len(s) : s[i] = c /\ \A j \in 1..(i-1) : s[j] # c
    ELSE 0

\* s.split(c, 1)[0]
BeforeFirst(s, c) == IF Find(s, c) = 0 THEN s ELSE SubSeq(s, 1, Find(s, c) - 1)

\* posixpath.splitext(p)[1]: from the last dot of the last component to the
\* end, unless that component holds only leading dots before it.
SplitExt(p) ==
    LET sepIndex == RFind(p, "/")
        dotIndex == RFind(p, ".")
    IN IF /\ dotIndex > sepIndex
          /\ \E k \in (sepIndex + 1)..(dotIndex - 1) : p[k] # "."
       THEN SubSeq(p, dotIndex, Len(p))
       ELSE <<>>

DotJs == <<".", "j", "s">>

-----------------------------------------------------------------------------
\* MIME types.

JsType == "application/javascript"

ExtJs == <<".", "j", "s">>
ExtMjs == <<".", "m", "j", "s">>
ExtJson == <<".", "j", "s", "o", "n">>
ExtHtml == <<".", "h", "t", "m", "l">>
ExtGz == <<".", "g", "z">>

\* Host MIME databases: .js is application/javascript on some hosts,
\* text/javascript on others (CPython 3.11 on Linux with /etc/mime.types),
\* and missing from a stripped-down one.
MimeDatabases ==
    { (ExtJs :> "application/javascript" @@ ExtMjs :> "application/javascript"
         @@ ExtJson :> "application/json" @@ ExtHtml :> "text/html"),
      (ExtJs :> "text/javascript" @@ ExtMjs :> "text/javascript"
         @@ ExtJson :> "application/json" @@ ExtHtml :> "text/html"),
      (ExtHtml :> "text/html") }

\* SimpleHTTPRequestHandler.extensions_map
extensions_map == (ExtGz :> "application/gzip")

\* SimpleHTTPRequestHandler.guess_type, the library default: the extension
\* as written, then lower-cased, in extensions_map; then the host database
\* (mimetypes.guess_type lower-cases the extension too); else octet-stream.
lib_guess_type(path, db) ==
    LET ext == SplitExt(path)
    IN IF ext \in DOMAIN extensions_map THEN extensions_map[ext]
       ELSE IF Lower(ext) \in DOMAIN extensions_map THEN extensions_map[Lower(ext)]
       ELSE IF Lower(ext) \in DOMAIN db THEN db[Lower(ext)]
       ELSE "application/octet-stream"

\* A guess_type that matches the suffix without regard to case.
guess_type_nocase(path, db) ==
    IF EndsWith(Lower(path), DotJs) THEN JsType ELSE lib_guess_type(path, db)

\* A guess_type that leaves .js to the library.
guess_type_nooverride(path, db) == lib_guess_type(path, db)

\* CustomHTTPRequestHandler.guess_type
guess_type(path, db) ==
    IF EndsWith(path, DotJs) THEN JsType ELSE lib_guess_type(path, db)

-----------------------------------------------------------------------------
\* Requests.  A request is what the client puts on the connection: nothing
\* (it closes), a request line longer than 65536 bytes, or a request line of
\* n whitespace-separated words followed by headers.

Commands == {"GET", "HEAD", "POST", "OPTIONS"}

\* words[-1] of a request line of three or more words
Versions == {"HTTP/1.0", "HTTP/2.0", "FOO/1.0"}

T_a_js == <<"/", "a", ".", "j", "s">>
T_a_js_query == <<"/", "a", ".", "j", "s", "?", "v">>
T_a_JS == <<"/", "a", ".", "J", "S">>
T_a_mjs == <<"/", "a", ".", "m", "j", "s">>
T_a_json == <<"/", "a", ".", "j", "s", "o", "n">>
T_a_js_map == <<"/", "a", ".", "j", "s", ".", "m", "a", "p">>
T_a_html == <<"/", "a", ".", "h", "t", "m", "l">>
T_a == <<"/", "a">>
T_d_js_slash == <<"/", "d", ".", "j", "s", "/">>
T_root == <<"/">>

Targets == {T_a_js, T_a_js_query, T_a_JS, T_a_mjs, T_a_json, T_a_js_map,
            T_a_html, T_a, T_d_js_slash, T_root}

Line(n, c, t, v, ims) ==
    [raw |-> "line", n |-> n, command |-> c, target |-> t, version |-> v, ims |-> ims]

NoRequest == [raw |-> "none", n |-> 0, command |-> "", target |-> <<>>, version |-> "", ims |-> FALSE]
Eof == [NoRequest EXCEPT !.raw = "eof"]
TooLong == [NoRequest EXCEPT !.raw = "toolong"]

Requests ==
    {Eof, TooLong, Line(0, "", <<>>, "", FALSE)}
    \cup {Line(1, c, <<>>, "", FALSE) : c \in Commands}
    \cup {Line(2, c, t, "", FALSE) : c \in Commands, t \in Targets}
    \cup {Line(3, c, t, v, ims) : c \in Commands, t \in Targets, v \in Versions, ims \in BOOLEAN}
    \cup {Line(4, c, T_root, v, FALSE) : c \in {"GET"}, v \in Versions}

\* What the translated path names on disk when the handler looks: a regular
\* file, nothing, a directory holding index.html, a directory without one.
FsKinds == {"file", "missing", "dir_index", "dir_plain"}

-----------------------------------------------------------------------------
\* The handler's fields and the response it writes.

Status(code) == [k |-> "status", name |-> "HTTP/1.0", value |-> code]
Header(name, value) == [k |-> "header", name |-> name, value |-> value]
EndOfHeaders == [k |-> "end", name |-> "", value |-> ""]
Body(kind) == [k |-> "body", name |-> "", value |-> kind]

NoHandler ==
    [req |-> NoRequest, fs |-> "missing", fresh |-> FALSE,
     request_version |-> "", command |-> "", path |-> <<>>,
     buf |-> <<>>, wfile |-> <<>>, guessed |-> <<>>]

\* BaseHTTPRequestHandler.send_response_only
send_response_only(hd, code) ==
    IF hd.request_version # "HTTP/0.9"
    THEN [hd EXCEPT !.buf = Append(@, Status(code))]
    ELSE hd

\* BaseHTTPRequestHandler.send_header
send_header(hd, keyword, value) ==
    IF hd.request_version # "HTTP/0.9"
    THEN [hd EXCEPT !.buf = Append(@, Header(keyword, value))]
    ELSE hd

\* BaseHTTPRequestHandler.end_headers and flush_headers
lib_end_headers(hd) ==
    IF hd.request_version # "HTTP/0.9"
    THEN [hd EXCEPT !.wfile = @ \o hd.buf \o <<EndOfHeaders>>, !.buf = <<>>]
    ELSE hd

\* An end_headers that forgets the third header.
end_headers_two(hd) ==
    lib_end_headers(
        send_header(
            send_header(hd, "Access-Control-Allow-Origin", "*"),
            "Access-Control-Allow-Methods", "GET, POST, OPTIONS"))

\* CustomHTTPRequestHandler.end_headers
end_headers(hd) ==
    lib_end_headers(
        send_header(
            send_header(
                send_header(hd, "Access-Control-Allow-Origin", "*"),
                "Access-Control-Allow-Methods", "GET, POST, OPTIONS"),
            "Access-Control-Allow-Headers", "Content-Type"))

\* BaseHTTPRequestHandler.send_response
send_response(hd, code) ==
    send_header(send_header(send_response_only(hd, code), "Server", "<version>"),
                "Date", "<date>")

\* BaseHTTPRequestHandler.send_error, for the codes this server sends (all
\* of them carry an HTML body, which a HEAD request does not get).
send_error(hd, code) ==
    LET h1 == send_header(send_response(hd, code), "Connection", "close")
        h2 == send_header(h1, "Content-Type", "text/html;charset=utf-8")
        h3 == send_header(h2, "Content-Length", "<len>")
        h4 == end_headers(h3)
    IN IF h4.command # "HEAD"
       THEN [h4 EXCEPT !.wfile = Append(@, Body(code))]
       ELSE h4

\* The version number words[-1] parses to, <<>> when it does not parse.
VersionNumber(v) ==
    CASE v = "HTTP/1.0" -> <<1, 0>>
      [] v = "HTTP/2.0" -> <<2, 0>>
      [] OTHER -> <<>>

\* BaseHTTPRequestHandler.parse_request: the handler after it, and whether
\* it returned True.  request_version is the default "HTTP/0.9" until the
\* version of a request line of three or more words has been accepted.
parse_request(hd, rq) ==
    LET h0 == [hd EXCEPT !.command = "None", !.request_version = "HTTP/0.9"]
        h1 == IF rq.n >= 3 THEN [h0 EXCEPT !.request_version = rq.version] ELSE h0
        h2 == [h1 EXCEPT !.command = rq.command, !.path = rq.target]
    IN IF rq.n = 0 THEN [hd |-> h0, ok |-> FALSE]
       ELSE IF rq.n >= 3 /\ VersionNumber(rq.version) = <<>>
            THEN [hd |-> send_error(h0, "400"), ok |-> FALSE]
       ELSE IF rq.n >= 3 /\ VersionNumber(rq.version)[1] >= 2
            THEN [hd |-> send_error(h0, "505"), ok |-> FALSE]
       ELSE IF ~(2 <= rq.n /\ rq.n <= 3)
            THEN [hd |-> send_error(h1, "400"), ok |-> FALSE]
       ELSE IF rq.n = 2 /\ rq.command # "GET"
            THEN [hd |-> send_error(h1, "400"), ok |-> FALSE]
       ELSE [hd |-> h2, ok |-> TRUE]

\* The directory the server serves: the script's own, after the chdir.
Directory == <<"/", "w">>

RECURSIVE SplitSlash(_)
\* str.split('/')
SplitSlash(s) ==
    IF Find(s, "/") = 0 THEN <<s>>
    ELSE <<SubSeq(s, 1, Find(s, "/") - 1)>> \o SplitSlash(SubSeq(s, Find(s, "/") + 1, Len(s)))

RECURSIVE JoinUnder(_, _)
\* os.path.join of the words, one after another, under a directory
JoinUnder(dir, words) ==
    IF words = <<>> THEN dir
    ELSE JoinUnder(dir \o <<"/">> \o Head(words), Tail(words))

\* SimpleHTTPRequestHandler.translate_path: the query and the fragment are
\* dropped, empty and dot components are skipped, the rest is joined under
\* the served directory, and a trailing slash is kept.
translate_path(path) ==
    LET q == BeforeFirst(BeforeFirst(path, "?"), "#")
        words == SelectSeq(SplitSlash(q),
                           LAMBDA w : w # <<>> /\ w # <<".">> /\ w # <<".", ".">>)
        joined == JoinUnder(Directory, words)
    IN IF EndsWith(q, <<"/">>) THEN joined \o <<"/">> ELSE joined

\* urllib.parse.urlsplit(self.path).path
UrlPath(path) == BeforeFirst(BeforeFirst(path, "#"), "?")

IndexHtml == <<"i", "n", "d", "e", "x", ".", "h", "t", "m", "l">>

\* SimpleHTTPRequestHandler.send_head on what the translated path names:
\* the handler after it, and whether a file object was returned (whose
\* content do_GET copies).  guessed records the call of guess_type.
send_head(hd, fs, fresh, db) ==
    LET path == translate_path(hd.path)
        isdir == fs \in {"dir_index", "dir_plain"}
        fpath == IF isdir /\ fs = "dir_index" THEN path \o IndexHtml ELSE path
        ctype == guess_type(fpath, db)
        hg == [hd EXCEPT !.guessed = <<[path |-> fpath, ctype |-> ctype]>>]
    IN IF isdir /\ ~EndsWith(UrlPath(hd.path), <<"/">>)
       THEN [hd |-> end_headers(
                       send_header(
                           send_header(send_response(hd, "301"), "Location", "<url>/"),
                           "Content-Length", "0")),
             f |-> FALSE]
       ELSE IF fs = "dir_plain"
       \* list_directory
       THEN [hd |-> end_headers(
                       send_header(
                           send_header(send_response(hd, "200"),
                                       "Content-type", "text/html; charset=utf-8"),
                           "Content-Length", "<len>")),
             f |-> TRUE]
       ELSE IF EndsWith(fpath, <<"/">>)
       THEN [hd |-> send_error(hg, "404"), f |-> FALSE]
       ELSE IF fs = "missing"
       THEN [hd |-> send_error(hg, "404"), f |-> FALSE]
       ELSE IF hd.req.ims /\ fresh
       THEN [hd |-> end_headers(send_response(hg, "304")), f |-> FALSE]
       ELSE [hd |-> end_headers(
                       send_header(
                           send_header(
                               send_header(send_response(hg, "200"), "Content-type", ctype),
                               "Content-Length", "<len>"),
                           "Last-Modified", "<date>")),
             f |-> TRUE]

\* BaseHTTPRequestHandler.handle_one_request up to the point where do_GET
\* starts copying: the handler after it, and whether a body is left to copy.
handle_one_request(hd, rq, fs, fresh, db) ==
    LET h0 == [hd EXCEPT !.req = rq, !.fs = fs, !.fresh = fresh]
        parsed == parse_request(h0, rq)
        hp == parsed.hd
        sent == send_head(hp, fs, fresh, db)
    IN IF rq.raw = "toolong"
       THEN [hd |-> send_error([h0 EXCEPT !.request_version = "", !.command = ""], "414"),
             copy |-> FALSE]
       ELSE IF rq.raw = "eof" THEN [hd |-> h0, copy |-> FALSE]
       ELSE IF ~parsed.ok THEN [hd |-> hp, copy |-> FALSE]
       ELSE IF hp.command \notin {"GET", "HEAD"}
            THEN [hd |-> send_error(hp, "501"), copy |-> FALSE]
       ELSE [hd |-> sent.hd, copy |-> sent.f /\ hp.command = "GET"]

-----------------------------------------------------------------------------
\* main()

\* Lines 35-45, in order.
StatusLines ==
    << "ScreenGrid Library Server",
       "=======================",
       "Server running at http://localhost:8000",
       "",
       "Available examples:",
       "  Main demo:     http://localhost:8000/index.html",
       "  Simple test:   http://localhost:8000/test.html",
       "  Basic example: http://localhost:8000/example.js",
       "",
       "Press Ctrl+C to stop the server",
       "" >>

OpeningMsg == "Opening browser..."
FallbackMsg == "Could not open browser automatically"
StopMsg == "\nServer stopped."

Init ==
    /\ pc = "chdir"
    /\ cwd = "caller"
    /\ portInUse \in BOOLEAN
    /\ mimeDb \in MimeDatabases
    /\ listener = "none"
    /\ stdout = <<>>
    /\ browser = "none"
    /\ exitCode = -1
    /\ uncaught = "none"
    /\ intrLog = {}
    /\ nIntr = 0
    /\ backlog = <<>>
    /\ nConn = 0
    /\ active = {}
    /\ hpc = "none"
    /\ h = NoHandler
    /\ errLog = 0
    /\ event = "init"

\* Line 32: os.chdir to the script's directory.
Chdir ==
    /\ pc = "chdir"
    /\ pc' = "bind"
    /\ cwd' = "script"
    /\ event' = "Chdir"
    /\ UNCHANGED <<portInUse, mimeDb, listener, stdout, browser, exitCode, uncaught,
                   intrLog, nIntr, backlog, nConn, active, hpc, h, errLog>>

\* Line 34, the port free: TCPServer.__init__ binds and listens.
BindOk ==
    /\ pc = "bind"
    /\ ~portInUse
    /\ pc' = "status"
    /\ listener' = "listening"
    /\ event' = "BindOk"
    /\ UNCHANGED <<cwd, portInUse, mimeDb, stdout, browser, exitCode, uncaught,
                   intrLog, nIntr, backlog, nConn, active, hpc, h, errLog>>

\* A main() that catches the bind error and carries on.
BindFails_swallowed ==
    /\ pc = "bind"
    /\ portInUse
    /\ pc' = "status"
    /\ listener' = "closed"
    /\ event' = "BindFails"
    /\ UNCHANGED <<cwd, portInUse, mimeDb, stdout, browser, exitCode, uncaught,
                   intrLog, nIntr, backlog, nConn, active, hpc, h, errLog>>

\* Line 34, the port taken: server_bind raises OSError, TCPServer.__init__
\* closes the socket and re-raises, nothing in main() catches it, and the
\* interpreter prints the traceback and exits with status 1.
BindFails ==
    /\ pc = "bind"
    /\ portInUse
    /\ pc' = "exited"
    /\ listener' = "closed"
    /\ uncaught' = "OSError"
    /\ exitCode' = 1
    /\ event' = "BindFails"
    /\ UNCHANGED <<cwd, portInUse, mimeDb, stdout, browser,
                   intrLog, nIntr, backlog, nConn, active, hpc, h, errLog>>

\* Lines 35-45: one print after another.
PrintStatus ==
    /\ pc = "status"
    /\ stdout' = Append(stdout, StatusLines[Len(stdout) + 1])
    /\ pc' = IF Len(stdout) + 1 = Len(StatusLines) THEN "browser" ELSE "status"
    /\ event' = "PrintStatus"
    /\ UNCHANGED <<cwd, portInUse, mimeDb, listener, browser, exitCode, uncaught,
                   intrLog, nIntr, backlog, nConn, active, hpc, h, errLog>>

\* A main() without the try around the browser launch.
BrowserOpen_notry(outcome) ==
    /\ pc = "browser"
    /\ browser' = outcome
    /\ event' = "BrowserOpen"
    /\ IF outcome = "raised"
       THEN /\ pc' = "exited"
            /\ listener' = "closed"
            /\ backlog' = <<>>
            /\ uncaught' = "Error"
            /\ exitCode' = 1
            /\ UNCHANGED stdout
       ELSE /\ pc' = "opened"
            /\ UNCHANGED <<stdout, listener, backlog, uncaught, exitCode>>
    /\ UNCHANGED <<cwd, portInUse, mimeDb, intrLog, nIntr, nConn, active, hpc, h, errLog>>

\* Lines 48-49 and 51-52: webbrowser.open launches a browser and returns
\* True, finds none it can run and returns False, or raises; what it raises
\* the bare except catches, and the fallback message is printed.
BrowserOpen(outcome) ==
    /\ pc = "browser"
    /\ browser' = outcome
    /\ event' = "BrowserOpen"
    /\ IF outcome = "raised"
       THEN /\ stdout' = Append(stdout, FallbackMsg)
            /\ pc' = "serve"
       ELSE /\ pc' = "opened"
            /\ UNCHANGED stdout
    /\ UNCHANGED <<cwd, portInUse, mimeDb, listener, exitCode, uncaught,
                   intrLog, nIntr, backlog, nConn, active, hpc, h, errLog>>

\* A main() that looks at what webbrowser.open returned.
PrintOpening_checked ==
    /\ pc = "opened"
    /\ stdout' = Append(stdout, IF browser = "launched" THEN OpeningMsg ELSE FallbackMsg)
    /\ pc' = "serve"
    /\ event' = "PrintOpening"
    /\ UNCHANGED <<cwd, portInUse, mimeDb, listener, browser, exitCode, uncaught,
                   intrLog, nIntr, backlog, nConn, active, hpc, h, errLog>>

\* Line 50: open returned, whatever it returned; then serve_forever (55).
PrintOpening ==
    /\ pc = "opened"
    /\ stdout' = Append(stdout, OpeningMsg)
    /\ pc' = "serve"
    /\ event' = "PrintOpening"
    /\ UNCHANGED <<cwd, portInUse, mimeDb, listener, browser, exitCode, uncaught,
                   intrLog, nIntr, backlog, nConn, active, hpc, h, errLog>>

-----------------------------------------------------------------------------
\* Interrupts.  SIGINT raises KeyboardInterrupt in the main thread, where
\* everything runs; what becomes of it depends on the try blocks around the
\* statement it lands in.  Each action is the delivery together with the
\* handler (or the unwinding) it sets off.

\* Before line 48, outside every try: the exception leaves main().  Inside
\* the with block (pc = "status") TCPServer.__exit__ closes the listener on
\* the way out.  The interpreter prints the traceback and the process ends
\* as killed by SIGINT (status 130).
InterruptStartup ==
    /\ pc \in {"chdir", "bind", "status"}
    /\ nIntr < MaxInterrupts
    /\ nIntr' = nIntr + 1
    /\ intrLog' = intrLog \cup {pc}
    /\ pc' = "exited"
    /\ listener' = IF listener = "listening" THEN "closed" ELSE listener
    /\ backlog' = <<>>
    /\ uncaught' = "KeyboardInterrupt"
    /\ exitCode' = 130
    /\ event' = "Interrupt"
    /\ UNCHANGED <<cwd, portInUse, mimeDb, stdout, browser, nConn, active, hpc, h, errLog>>

\* Lines 48-52: inside the try whose except clause is bare, so that it
\* catches KeyboardInterrupt too: the fallback message is printed and main()
\* goes on to serve_forever.
InterruptBrowser ==
    /\ pc \in {"browser", "opened"}
    /\ nIntr < MaxInterrupts
    /\ nIntr' = nIntr + 1
    /\ intrLog' = intrLog \cup {pc}
    /\ browser' = IF pc = "browser" THEN "raised" ELSE browser
    /\ stdout' = Append(stdout, FallbackMsg)
    /\ pc' = "serve"
    /\ event' = "Interrupt"
    /\ UNCHANGED <<cwd, portInUse, mimeDb, listener, exitCode, uncaught,
                   backlog, nConn, active, hpc, h, errLog>>

\* A main() whose handler prints and leaves without closing the server.
InterruptServing_noclose ==
    /\ pc = "serve"
    /\ nIntr < MaxInterrupts
    /\ nIntr' = nIntr + 1
    /\ intrLog' = intrLog \cup {IF active = {} THEN "serve" ELSE "handler"}
    /\ active' = {}
    /\ hpc' = IF hpc \in {"read", "copy"} THEN "done" ELSE hpc
    /\ stdout' = Append(stdout, StopMsg)
    /\ pc' = "exited"
    /\ exitCode' = 0
    /\ event' = "Interrupt"
    /\ UNCHANGED <<cwd, portInUse, mimeDb, browser, uncaught, nConn, h, errLog,
                   listener, backlog>>

\* Lines 54-58: inside serve_forever, idle in select or inside a handler.
\* Inside a handler the bare except of _handle_request_noblock shuts the
\* connection down and re-raises.  main() catches KeyboardInterrupt, prints
\* the stop message and calls sys.exit(0); SystemExit leaves the with block,
\* whose __exit__ closes the listener, and the process ends with status 0.
InterruptServing ==
    /\ pc = "serve"
    /\ nIntr < MaxInterrupts
    /\ nIntr' = nIntr + 1
    /\ intrLog' = intrLog \cup {IF active = {} THEN "serve" ELSE "handler"}
    /\ active' = {}
    /\ hpc' = IF hpc \in {"read", "copy"} THEN "done" ELSE hpc
    /\ stdout' = Append(stdout, StopMsg)
    /\ listener' = "closed"
    /\ backlog' = <<>>
    /\ pc' = "exited"
    /\ exitCode' = 0
    /\ event' = "Interrupt"
    /\ UNCHANGED <<cwd, portInUse, mimeDb, browser, uncaught, nConn, h, errLog>>

-----------------------------------------------------------------------------
\* The serve loop: socketserver.TCPServer.serve_forever, which main() runs
\* at line 55 with the handler class given at line 34.

\* A client connects: the kernel completes the connection on the listening
\* socket, whether or not the server has reached serve_forever.
Connect ==
    /\ listener = "listening"
    /\ nConn < MaxConns
    /\ nConn' = nConn + 1
    /\ backlog' = Append(backlog, nConn + 1)
    /\ event' = "Connect"
    /\ UNCHANGED <<pc, cwd, portInUse, mimeDb, listener, stdout, browser, exitCode,
                   uncaught, intrLog, nIntr, active, hpc, h, errLog>>

\* A server that hands each connection to a thread of its own.
Accept_threaded ==
    /\ pc = "serve"
    /\ backlog # <<>>
    /\ active' = active \cup {Head(backlog)}
    /\ backlog' = Tail(backlog)
    /\ hpc' = "read"
    /\ h' = NoHandler
    /\ event' = "Accept"
    /\ UNCHANGED <<pc, cwd, portInUse, mimeDb, listener, stdout, browser, exitCode,
                   uncaught, intrLog, nIntr, nConn, errLog>>

\* _handle_request_noblock: TCPServer accepts the next connection and runs
\* its handler in the same thread, so only once the previous handler has
\* returned.  The handler starts by reading the request line, with no
\* timeout (StreamRequestHandler.timeout is None).
Accept ==
    /\ pc = "serve"
    /\ active = {}
    /\ backlog # <<>>
    /\ active' = {Head(backlog)}
    /\ backlog' = Tail(backlog)
    /\ hpc' = "read"
    /\ h' = NoHandler
    /\ event' = "Accept"
    /\ UNCHANGED <<pc, cwd, portInUse, mimeDb, listener, stdout, browser, exitCode,
                   uncaught, intrLog, nIntr, nConn, errLog>>

\* The client sends its request (or closes), and the handler runs up to the
\* end of the response, or up to the copy of the file for a GET that found
\* one.  When it returns, shutdown_request closes the connection.
HandleRequest(rq, fs, fresh) ==
    /\ pc = "serve"
    /\ hpc = "read"
    /\ LET r == handle_one_request(h, rq, fs, fresh, mimeDb)
       IN /\ h' = r.hd
          /\ hpc' = IF r.copy THEN "copy" ELSE "done"
          /\ active' = IF r.copy THEN active ELSE {}
    /\ event' = "HandleRequest"
    /\ UNCHANGED <<pc, cwd, portInUse, mimeDb, listener, stdout, browser, exitCode,
                   uncaught, intrLog, nIntr, backlog, nConn, errLog>>

\* do_GET: copyfile writes the content, and the handler returns.
CopyFile ==
    /\ pc = "serve"
    /\ hpc = "copy"
    /\ h' = [h EXCEPT !.wfile = Append(@, Body("content"))]
    /\ hpc' = "done"
    /\ active' = {}
    /\ event' = "CopyFile"
    /\ UNCHANGED <<pc, cwd, portInUse, mimeDb, listener, stdout, browser, exitCode,
                   uncaught, intrLog, nIntr, backlog, nConn, errLog>>

\* A server whose loop lets a handler's exception through to main().
HandlerRaises_fatal ==
    /\ pc = "serve"
    /\ hpc \in {"read", "copy"}
    /\ hpc' = "done"
    /\ active' = {}
    /\ pc' = "exited"
    /\ listener' = "closed"
    /\ backlog' = <<>>
    /\ uncaught' = "OSError"
    /\ exitCode' = 1
    /\ event' = "HandlerRaises"
    /\ UNCHANGED <<cwd, portInUse, mimeDb, stdout, browser, intrLog, nIntr, nConn, h, errLog>>

\* The handler raises an ordinary error (the client resets the connection
\* while the handler reads or writes): _handle_request_noblock catches
\* Exception, handle_error prints the traceback, shutdown_request closes
\* the connection, and the loop goes on.
HandlerRaises ==
    /\ pc = "serve"
    /\ hpc \in {"read", "copy"}
    /\ hpc' = "done"
    /\ active' = {}
    /\ errLog' = errLog + 1
    /\ event' = "HandlerRaises"
    /\ UNCHANGED <<pc, cwd, portInUse, mimeDb, listener, stdout, browser, exitCode,
                   uncaught, intrLog, nIntr, backlog, nConn, h>>

Next ==
    \/ Chdir
    \/ BindOk
    \/ BindFails
    \/ PrintStatus
    \/ \E outcome \in {"launched", "false", "raised"} : BrowserOpen(outcome)
    \/ PrintOpening
    \/ InterruptStartup
    \/ InterruptBrowser
    \/ InterruptServing
    \/ Connect
    \/ Accept
    \/ /\ hpc = "read"
       /\ \E rq \in Requests, fs \in FsKinds, fresh \in BOOLEAN :
             /\ fresh => rq.ims
             /\ fs # "missing" => rq.n \in {2, 3}
             /\ HandleRequest(rq, fs, fresh)
    \/ CopyFile
    \/ HandlerRaises

Spec == Init /\ [][Next]_vars

-----------------------------------------------------------------------------
\* What a response holds.

Range(seq) == {seq[i] : i \in 1..Len(seq)}

\* The status codes on the wire (none for a response sent as a bare body).
StatusCodes == {it.value : it \in {x \in Range(h.wfile) : x.k = "status"}}

\* The values of the header called name.
HeaderValues(name) ==
    {it.value : it \in {x \in Range(h.wfile) : x.k = "header" /\ x.name = name}}

\* Header names are case-insensitive: send_head writes Content-type,
\* send_error Content-Type.
ContentTypes == HeaderValues("Content-type") \cup HeaderValues("Content-Type")

CorsHeaders ==
    /\ HeaderValues("Access-Control-Allow-Origin") = {"*"}
    /\ HeaderValues("Access-Control-Allow-Methods") = {"GET, POST, OPTIONS"}
    /\ HeaderValues("Access-Control-Allow-Headers") = {"Content-Type"}

\* The handler has put a response, or the start of one, on the connection.
Responded == h.wfile # <<>>

\* The request path, query string and fragment removed, ends in .js.
RequestPathEndsJs == EndsWith(UrlPath(h.req.target), DotJs)

-----------------------------------------------------------------------------
\* C1 as stated: every response the server produces, whatever the method,
\* the path or the status, carries the three CORS headers with their exact
\* values.
C1_EveryResponseHasCors == Responded => CorsHeaders

\* C1 amended: every response that has a status line and a header block
\* carries the three CORS headers with their exact values; the responses
\* without one are those to a request handled as HTTP/0.9 (a two-word
\* request line, or an error found before the version of the request line
\* was accepted), which are sent as a bare body with no header at all.
C1_HeaderBlockHasCors ==
    Responded =>
        IF h.request_version = "HTTP/0.9"
        THEN \A it \in Range(h.wfile) : it.k = "body"
        ELSE /\ CorsHeaders
             /\ Cardinality(StatusCodes) = 1

\* A malformed request (four words) answered 400 with the headers.
C1_Witness ==
    /\ hpc = "done"
    /\ h.req.n = 4
    /\ StatusCodes = {"400"}
    /\ CorsHeaders

\* C2 as stated: every request whose path ends in .js, a query string
\* allowed after it, is answered with Content-Type application/javascript,
\* also when the file is missing or the path names a directory.
C2_EveryJsRequestIsJavascript ==
    (Responded /\ RequestPathEndsJs) => ContentTypes = {JsType}

\* C2 amended: every request whose path (query string and fragment
\* removed) ends in .js and which is answered 200 gets Content-Type
\* application/javascript, whatever the host's MIME database says.
C2_Js200IsJavascript ==
    (RequestPathEndsJs /\ "200" \in StatusCodes) => ContentTypes = {JsType}

\* /a.js?v served from a host whose database calls .js text/javascript.
C2_Witness ==
    /\ hpc = "done"
    /\ h.req.target = T_a_js_query
    /\ "200" \in StatusCodes
    /\ ExtJs \in DOMAIN mimeDb
    /\ mimeDb[ExtJs] = "text/javascript"
    /\ ContentTypes = {JsType}

\* C3: on every path that does not end in the exact suffix .js, guess_type
\* returns what the library's guess_type returns for it: whenever the
\* handler has called guess_type on such a path, the type it got is the
\* library's for that path and the host's database.
C3_GuessTypeIsDefaultOffJs ==
    \A g \in Range(h.guessed) :
        ~EndsWith(g.path, DotJs) => g.ctype = lib_guess_type(g.path, mimeDb)

\* /a.JS served as the database's text/javascript, not as the fixed type.
C3_Witness ==
    /\ hpc = "done"
    /\ h.req.target = T_a_JS
    /\ "200" \in StatusCodes
    /\ ContentTypes = {"text/javascript"}

\* C4: with port 8000 taken, the process never gets past the bind: no
\* listener, no status line, no browser launch, no exit status 0; and once
\* it has tried to bind it has exited on the uncaught OSError.
C4_PortInUseFailsStartup ==
    portInUse =>
        /\ pc \in {"chdir", "bind", "exited"}
        /\ listener # "listening"
        /\ stdout = <<>>
        /\ browser = "none"
        /\ exitCode # 0
        /\ (pc = "exited" /\ intrLog = {}) => (uncaught = "OSError" /\ exitCode = 1)

C4_Witness ==
    /\ portInUse
    /\ pc = "exited"
    /\ uncaught = "OSError"

\* C5: an interrupt delivered in the serve loop, idle or inside a handler,
\* ends the process with the stop message printed last, exit status 0 and
\* the listener closed.
C5_InterruptInServeLoopStops ==
    (intrLog \cap {"serve", "handler"} # {}) =>
        /\ pc = "exited"
        /\ exitCode = 0
        /\ uncaught = "none"
        /\ stdout # <<>>
        /\ stdout[Len(stdout)] = StopMsg
        /\ listener = "closed"
        /\ active = {}

\* Interrupted in the middle of a request.
C5_Witness ==
    /\ "handler" \in intrLog
    /\ pc = "exited"
    /\ exitCode = 0

\* C6: the browser launch is attempted with the listener bound and exactly
\* the status lines printed; whatever comes of it, the process stays alive
\* with the listener bound and moves on towards the serve loop; and the
\* serve loop is entered only after the attempt.
LaunchStepGoesOn ==
    pc \in {"browser", "opened"} =>
        (pc' \in {"browser", "opened", "serve"} /\ listener' = "listening" /\ exitCode' = -1)

C6_BrowserNeverAbortsStartup ==
    /\ [](pc \in {"browser", "opened"} => (listener = "listening" /\ stdout = StatusLines))
    /\ [](pc = "serve" => (browser # "none" /\ listener = "listening"))
    /\ [][LaunchStepGoesOn]_vars

\* The open call raised and the server serves.
C6_Witness ==
    /\ pc = "serve"
    /\ browser = "raised"
    /\ intrLog = {}
    /\ listener = "listening"

\* C7 as stated: when the launch failed, by an exception or by a False
\* result, the fallback message is printed and the success message is not;
\* the success message is printed only when a browser was launched.
C7_FallbackOnEveryFailure ==
    /\ (pc \in {"serve", "exited"} /\ browser \in {"false", "raised"}) =>
          (FallbackMsg \in Range(stdout) /\ OpeningMsg \notin Range(stdout))
    /\ OpeningMsg \in Range(stdout) => browser = "launched"

\* C8: the server is Stopped (no listener) or Serving (listener bound);
\* only an interrupt takes it from Serving to Stopped, no step of the
\* request handling changes where main() is or what the listener is, and a
\* closed listener stays closed.
ServerState == IF listener = "listening" THEN "Serving" ELSE "Stopped"

StopIsByInterrupt ==
    (ServerState = "Serving" /\ ServerState' = "Stopped") => nIntr' = nIntr + 1

RequestStepKeepsServing ==
    event' \in {"Connect", "Accept", "HandleRequest", "CopyFile", "HandlerRaises"} =>
        (listener' = listener /\ pc' = pc /\ exitCode' = -1)

C8_OnlyInterruptStopsServing ==
    /\ [][StopIsByInterrupt]_vars
    /\ [][RequestStepKeepsServing]_vars
    /\ [][listener = "closed" => listener' = "closed"]_vars

\* A handler raised, and the server still serves.
C8_Witness ==
    /\ errLog > 0
    /\ pc = "serve"
    /\ listener = "listening"

\* C9 as stated: an interrupt delivered at any point after the bind ends
\* the process with the stop message printed and exit status 0.
C9_InterruptAfterBindStops ==
    (intrLog \cap {"status", "browser", "opened", "serve", "handler"} # {}) =>
        /\ pc = "exited"
        /\ exitCode = 0
        /\ StopMsg \in Range(stdout)

\* C10: at most one connection is being handled; a connection is dispatched
\* only when no handler is running; and a handler waiting for its client's
\* request ends only by what that client does or by an interrupt, there
\* being no timeout.
DispatchWhenIdle == (active' # active /\ active' # {}) => active = {}

WaitEndsByClientOrInterrupt ==
    (hpc = "read" /\ active # {} /\ active' # active) =>
        event' \in {"HandleRequest", "HandlerRaises", "Interrupt"}

C10_OneRequestAtATime ==
    /\ [](Cardinality(active) <= 1)
    /\ [][DispatchWhenIdle]_vars
    /\ [][WaitEndsByClientOrInterrupt]_vars

\* A client waits in the backlog while the handler of another blocks.
C10_Witness ==
    /\ hpc = "read"
    /\ active # {}
    /\ backlog # <<>>

====
